---- MODULE Spec2Model ----
(***************************************************************************)
(* go-cache: a time-windowed key-value cache with two adaptors.            *)
(*                                                                         *)
(*   memory/  MemCache: a map[string]MemCacheValue guarded by one          *)
(*            sync.RWMutex, plus a cleaner goroutine driven by a           *)
(*            time.Ticker.                                                 *)
(*   redis/   RedisCache: every method is one or more requests to a redis  *)
(*            server through a go-redis client.                            *)
(*                                                                         *)
(* Time is a discrete wall clock `now`.  Every MemCache method is two      *)
(* steps: the call acquires the lock the code takes (RLock or Lock), the   *)
(* return runs the body under that lock and releases it (the deferred      *)
(* unlock).  Several RLock holders can therefore be inside their bodies at *)
(* once, exactly as sync.RWMutex allows.                                   *)
(***************************************************************************)
EXTENDS Integers, Sequences, FiniteSets, TLC

\* ---------------------------------------------------------------- bounds
MaxTime == 4        \* the wall clock runs 0..MaxTime
MaxWindow == 2      \* Window(t) is given t in 1..MaxWindow

Keys == {"a", "b"}
Values == {"x", "y"}
Callers == {"t1", "t2"}          \* goroutines calling the cache's methods
CleanerIds == {"j1", "j2"}       \* cleaner goroutines RunCleaner can start
Windows == 1 .. MaxWindow
Times == 0 .. MaxTime

\* ------------------------------------------------------- memory: the data
Nil == "nil"                     \* a nil []byte / a nil error
Torn == "torn"                   \* a []byte read while another goroutine wrote it
ErrNotFound == "unable to retrieve value from cache"
NoKey == "-"
ZeroTime == -1                   \* time.Time{}, the zero time (year 1)

\* time.Since saturates at the largest Duration (about 292 years) when asked
\* for the distance to the zero time; any value larger than every window and
\* every clock reading behaves the same in the comparisons the code makes.
MaxDuration == MaxTime + MaxWindow + 1

\* MemCacheValue{saved, value}
MemCacheValue(saved, value) == [saved |-> saved, value |-> value]

\* MemCacheValue{}: what Delete stores under the key
ZeroValue == MemCacheValue(ZeroTime, Nil)

Idle == [op |-> "idle", key |-> NoKey, value |-> Nil]
Call(op, key, value) == [op |-> op, key |-> key, value |-> value]
NoRace == [raced |-> FALSE, was |-> ZeroValue]
NoReturn == [op |-> "none", key |-> NoKey, value |-> Nil, err |-> Nil, warm |-> FALSE]

NoPut == [value |-> Nil, at |-> ZeroTime]

\* ---------------------------------------------------------- redis: the data
RedisNil == "redis: nil"         \* redis.Nil, go-redis's error for a nil reply
ErrIO == "i/o error"             \* a request that failed on the connection
NoExpiry == -1                   \* TTL's reply for a key that has no expiry set
Absent == -2                     \* TTL's reply for a key that does not exist
RNoReturn == [op |-> "none", key |-> NoKey, value |-> Nil, err |-> Nil, warm |-> FALSE,
              reply |-> [n |-> 0, err |-> Nil], deleted |-> {}, left |-> {}]

RedisCallers == {"t1"}           \* the goroutine that calls Flush, FlushStale, RunCleaner
RedisCleanerIds == {"r1"}        \* cleaner goroutines RedisCache.RunCleaner can start

\* No Flush or FlushStale in progress
NoIter == [op |-> "idle", pc |-> "-", todo |-> <<>>, more |-> FALSE, seen |-> {},
           deleted |-> {}, left |-> {}, d |-> 0, failed |-> FALSE]

NoRedisCleaner == [pc |-> "none", Interval |-> 0, C |-> 0, failed |-> FALSE]

NoCleaner == [pc |-> "none", Interval |-> 0, next |-> 0, C |-> 0]

VARIABLES
    window,     \* MemCache.window
    cache,      \* MemCache.cache: a function whose DOMAIN is the keys present
    mutex,      \* MemCache.mutex: [writer: a holder or Nil, readers: set of holders]
    now,        \* the wall clock
    call,       \* call[t]: the method call goroutine t is inside, or Idle
    race,       \* race[t]: the entry t's key held before a write raced with t's read
    last,       \* what the step just taken returned to its caller (NoReturn: nothing)
    swept,      \* the keys the step just taken removed from the map
    lastPut,    \* lastPut[k]: what the latest Put(k) stored and when, until k is
                \* deleted, flushed or swept (NoPut: no such Put)
    cleaners,   \* cleaners[j]: a cleaner goroutine, its ticker and its position
    crashed,    \* the Go runtime has aborted the process (fatal error / throw)
    refs,       \* the caller goroutines that still hold the *MemCache
    finalizer,  \* the cleaner whose stopCleaner is the finalizer set on the cache
    stop,       \* stop[j]: the goroutines blocked in a send on j.stop, in order
    putCache,   \* putCache[t]: Put's local `cache`, the map goroutine t has built and not yet swapped in
    rwindow,    \* RedisCache.window (0: New was given no Window option)
    rdb,        \* the redis server's keyspace: key -> [value, ttl]
    rlast,      \* what the RedisCache method just run returned (RNoReturn: nothing)
    riter,      \* riter[p]: the Flush or FlushStale goroutine p is inside: its scan
                \* iterator, the key in hand, the keys it deleted and left so far
    rcleaners,  \* rcleaners[j]: a cleaner goroutine of the RedisCache and its ticker
    rstop,      \* rstop[j]: how many goroutines are blocked in a send on j.stop
    rcrashed    \* the Go runtime has aborted the process that uses the RedisCache

jvars == <<refs, finalizer, stop>>
mvars == <<window, cache, mutex, now, call, race, last, swept, lastPut, cleaners, crashed, jvars, putCache>>
rjvars == <<riter, rcleaners, rstop, rcrashed>>
rvars == <<rwindow, rdb, rlast, rjvars>>
vars == <<mvars, rvars>>

\* ------------------------------------------------- memory: pure functions
\* time.Since(t) read off the clock
Since(t, clock) == IF t = ZeroTime THEN MaxDuration ELSE clock - t

\* val, ok := c.cache[key]: a missing key reads as the zero MemCacheValue
Lookup(m, key) == IF key \in DOMAIN m THEN m[key] ELSE ZeroValue

\* age := (time.Since(val.saved) - c.window) * -1
Age(val, clock, w) == (Since(val.saved, clock) - w) * (-1)

\* IsWarm with the boundary on the wrong side: ok && age >= 0
IsWarmResultInclusive(m, key, clock, w) ==
    key \in DOMAIN m /\ Age(Lookup(m, key), clock, w) >= 0

\* IsWarm: return ok && age > 0
IsWarmResult(m, key, clock, w) ==
    key \in DOMAIN m /\ Age(Lookup(m, key), clock, w) > 0

\* Put that copies every entry, the old one of the key included, and inserts
\* the new one only when the key is new
PutMapKeepsOld(m, key, value, clock) ==
    [k \in DOMAIN m \cup {key} |->
        IF k \in DOMAIN m THEN m[k] ELSE MemCacheValue(clock, value)]

\* Put: copy every entry whose key differs, insert the new one, swap the map
PutMap(m, key, value, clock) ==
    [k \in {x \in DOMAIN m : x # key} \cup {key} |->
        IF k = key THEN MemCacheValue(clock, value) ELSE m[k]]

\* Get: the error when !ok, else cache.value
GetResult(m, key) ==
    IF key \notin DOMAIN m
    THEN [value |-> Nil, err |-> ErrNotFound]
    ELSE [value |-> m[key].value, err |-> Nil]

\* Delete: the error when !ok, else nil
DeleteErr(m, key) == IF key \notin DOMAIN m THEN ErrNotFound ELSE Nil

\* Delete: c.cache[key] = MemCacheValue{} when ok, nothing otherwise
DeleteMap(m, key) ==
    IF key \notin DOMAIN m THEN m ELSE [m EXCEPT ![key] = ZeroValue]

\* map[string]MemCacheValue{}
EmptyMap == [k \in {} |-> ZeroValue]

\* No Put has a local map built
NoLocal == [built |-> FALSE, m |-> EmptyMap]

\* Flush that builds the empty map and never assigns it
FlushMapKeepsMap(m) == m

\* Flush: c.cache = map[string]MemCacheValue{}
FlushMap(m) == EmptyMap

\* FlushStale deleting from the boundary on: age <= 0
FlushStaleDeletesAtBoundary(val, clock, w) == Age(val, clock, w) <= 0

\* FlushStale: the test that guards delete(c.cache, k)
FlushStaleDeletes(val, clock, w) == Age(val, clock, w) < 0

\* FlushStale: range over the map, delete the entries the test selects
FlushStaleMap(m, clock, w) ==
    [k \in {x \in DOMAIN m : ~FlushStaleDeletes(m[x], clock, w)} |-> m[k]]

\* ------------------------------------------------------ memory: the mutex
\* sync.RWMutex: RLock succeeds while no writer holds it, Lock while nobody does
CanRLock == mutex.writer = Nil
\* A Lock that does not wait for the holders of the read lock
CanLockBesideReaders == mutex.writer = Nil

CanLock == mutex.writer = Nil /\ mutex.readers = {}
RLock(p) == [mutex EXCEPT !.readers = @ \cup {p}]
RUnlock(p) == [mutex EXCEPT !.readers = @ \ {p}]
Lock(p) == [mutex EXCEPT !.writer = p]
Unlock(p) == [mutex EXCEPT !.writer = Nil]

Return(op, key, value, err, warm) ==
    [op |-> op, key |-> key, value |-> value, err |-> err, warm |-> warm]

\* ------------------------------------------------------------------ Init
\* No RedisCache in use
RedisIdle ==
    /\ rwindow = 0
    /\ rdb = [k \in {} |-> [value |-> Nil, ttl |-> NoExpiry]]
    /\ rlast = RNoReturn
    /\ riter = [p \in RedisCallers \cup RedisCleanerIds |-> NoIter]
    /\ rcleaners = [j \in RedisCleanerIds |-> NoRedisCleaner]
    /\ rstop = [j \in RedisCleanerIds |-> 0]
    /\ rcrashed = FALSE

\* memory.New(Window(t)): an empty map, an unlocked mutex, the window as given
Init ==
    /\ RedisIdle
    /\ window \in Windows
    /\ cache = EmptyMap
    /\ mutex = [writer |-> Nil, readers |-> {}]
    /\ now = 0
    /\ call = [t \in Callers |-> Idle]
    /\ race = [t \in Callers |-> NoRace]
    /\ last = NoReturn
    /\ swept = {}
    /\ lastPut = [k \in Keys |-> NoPut]
    /\ cleaners = [j \in CleanerIds |-> NoCleaner]
    /\ crashed = FALSE
    /\ refs = Callers
    /\ finalizer = Nil
    /\ stop = [j \in CleanerIds |-> <<>>]
    /\ putCache = [t \in Callers |-> NoLocal]

\* --------------------------------------------------------------- IsWarm
IsWarmCall(t, key) ==
    /\ UNCHANGED <<rvars, jvars, putCache>>
    /\ ~crashed /\ call[t] = Idle /\ t \in refs /\ CanRLock
    /\ mutex' = RLock(t)
    /\ call' = [call EXCEPT ![t] = Call("IsWarm", key, Nil)]
    /\ last' = NoReturn /\ swept' = {} /\ lastPut' = lastPut
    /\ UNCHANGED <<window, cache, now, race, cleaners, crashed>>

\* A read of c.cache[key] that raced with a Delete writing the same key sees
\* the saved time as it was, the zero time, or a mix of the two words of a
\* time.Time; time.Since of a mix is at least the true elapsed time, so the
\* answer is the one for the entry as it was, or false.
IsWarmReturn(t) ==
    /\ UNCHANGED <<rvars, jvars, putCache>>
    /\ ~crashed /\ call[t].op = "IsWarm"
    /\ \E warm \in BOOLEAN :
        /\ IF race[t].raced
           THEN warm \in {Age(race[t].was, now, window) > 0, FALSE}
           ELSE warm = IsWarmResult(cache, call[t].key, now, window)
        /\ last' = Return("IsWarm", call[t].key, Nil, Nil, warm)
    /\ swept' = {} /\ lastPut' = lastPut
    /\ mutex' = RUnlock(t)
    /\ call' = [call EXCEPT ![t] = Idle]
    /\ race' = [race EXCEPT ![t] = NoRace]
    /\ UNCHANGED <<window, cache, now, cleaners, crashed>>

\* ------------------------------------------------------------------ Put
PutCall(t, key, value) ==
    /\ UNCHANGED <<rvars, jvars, putCache>>
    /\ ~crashed /\ call[t] = Idle /\ t \in refs /\ CanLock
    /\ mutex' = Lock(t)
    /\ call' = [call EXCEPT ![t] = Call("Put", key, value)]
    /\ last' = NoReturn /\ swept' = {} /\ lastPut' = lastPut
    /\ UNCHANGED <<window, cache, now, race, cleaners, crashed>>

\* The copy loop, nVal := MemCacheValue{value, saved: time.Now()}, cache[key] = nVal
PutCopy(t) ==
    /\ UNCHANGED <<rvars, jvars>>
    /\ ~crashed /\ call[t].op = "Put" /\ ~putCache[t].built
    /\ putCache' = [putCache EXCEPT ![t] =
                  [built |-> TRUE, m |-> PutMap(cache, call[t].key, call[t].value, now)]]
    /\ last' = NoReturn /\ swept' = {} /\ lastPut' = lastPut
    /\ UNCHANGED <<window, cache, mutex, now, call, race, cleaners, crashed>>

\* c.cache = cache, then the deferred Unlock
PutReturn(t) ==
    /\ UNCHANGED <<rvars, jvars>>
    /\ ~crashed /\ call[t].op = "Put" /\ putCache[t].built
    /\ cache' = putCache[t].m
    /\ putCache' = [putCache EXCEPT ![t] = NoLocal]
    /\ last' = Return("Put", call[t].key, Nil, Nil, FALSE)
    /\ swept' = {}
    /\ lastPut' = [lastPut EXCEPT ![call[t].key] =
                     [value |-> call[t].value, at |-> putCache[t].m[call[t].key].saved]]
    /\ mutex' = Unlock(t)
    /\ call' = [call EXCEPT ![t] = Idle]
    /\ UNCHANGED <<window, now, race, cleaners, crashed>>

\* ------------------------------------------------------------------ Get
GetCall(t, key) ==
    /\ UNCHANGED <<rvars, jvars, putCache>>
    /\ ~crashed /\ call[t] = Idle /\ t \in refs /\ CanRLock
    /\ mutex' = RLock(t)
    /\ call' = [call EXCEPT ![t] = Call("Get", key, Nil)]
    /\ last' = NoReturn /\ swept' = {} /\ lastPut' = lastPut
    /\ UNCHANGED <<window, cache, now, race, cleaners, crashed>>

\* A read that raced with a Delete of the same key sees the entry as it was,
\* the zero entry, or a mix of the two.
GetReturn(t) ==
    /\ UNCHANGED <<rvars, jvars, putCache>>
    /\ ~crashed /\ call[t].op = "Get"
    /\ \E r \in [value : Values \cup {Nil, Torn}, err : {Nil, ErrNotFound}] :
        /\ IF race[t].raced
           THEN r.err = Nil /\ r.value \in {race[t].was.value, Nil, Torn}
           ELSE r = GetResult(cache, call[t].key)
        /\ last' = Return("Get", call[t].key, r.value, r.err, FALSE)
    /\ swept' = {} /\ lastPut' = lastPut
    /\ mutex' = RUnlock(t)
    /\ call' = [call EXCEPT ![t] = Idle]
    /\ race' = [race EXCEPT ![t] = NoRace]
    /\ UNCHANGED <<window, cache, now, cleaners, crashed>>

\* --------------------------------------------------------------- Delete
\* Delete takes the READ lock (c.mutex.RLock) and then writes the map.
DeleteCall(t, key) ==
    /\ UNCHANGED <<rvars, jvars, putCache>>
    /\ ~crashed /\ call[t] = Idle /\ t \in refs /\ CanRLock
    /\ mutex' = RLock(t)
    /\ call' = [call EXCEPT ![t] = Call("Delete", key, Nil)]
    /\ last' = NoReturn /\ swept' = {} /\ lastPut' = lastPut
    /\ UNCHANGED <<window, cache, now, race, cleaners, crashed>>

\* The goroutines that hold the read lock with t while t writes the map
Overlapping(t) == mutex.readers \ {t}

\* When the write happens while other goroutines are inside the map under
\* their own read locks, the runtime may detect it and abort ("concurrent map
\* read and map write", "concurrent map writes") or may not; an undetected
\* read of the same key is marked as raced.
DeleteReturn(t) ==
    LET key == call[t].key
        wrote == key \in DOMAIN cache
    IN  /\ UNCHANGED <<rvars, jvars, putCache>>
        /\ ~crashed /\ call[t].op = "Delete"
        /\ \E abort \in BOOLEAN :
            /\ abort => wrote /\ Overlapping(t) # {}
            /\ crashed' = abort
            /\ IF abort
               THEN /\ last' = NoReturn /\ swept' = {} /\ lastPut' = lastPut
                    /\ UNCHANGED <<cache, race, mutex, call>>
               ELSE /\ cache' = DeleteMap(cache, key)
                    /\ last' = Return("Delete", key, Nil, DeleteErr(cache, key), FALSE)
                    /\ swept' = DOMAIN cache \ DOMAIN cache'
                    /\ lastPut' = IF DeleteErr(cache, key) = Nil
                                  THEN [lastPut EXCEPT ![key] = NoPut]
                                  ELSE lastPut
                    /\ race' = [u \in Callers |->
                                  IF /\ wrote /\ u \in Overlapping(t)
                                     /\ call[u].key = key /\ ~race[u].raced
                                  THEN [raced |-> TRUE, was |-> cache[key]]
                                  ELSE IF u = t THEN NoRace ELSE race[u]]
                    /\ mutex' = RUnlock(t)
                    /\ call' = [call EXCEPT ![t] = Idle]
        /\ UNCHANGED <<window, now, cleaners>>

\* ---------------------------------------------------------------- Flush
FlushCall(t) ==
    /\ UNCHANGED <<rvars, jvars, putCache>>
    /\ ~crashed /\ call[t] = Idle /\ t \in refs /\ CanLock
    /\ mutex' = Lock(t)
    /\ call' = [call EXCEPT ![t] = Call("Flush", NoKey, Nil)]
    /\ last' = NoReturn /\ swept' = {} /\ lastPut' = lastPut
    /\ UNCHANGED <<window, cache, now, race, cleaners, crashed>>

FlushReturn(t) ==
    /\ UNCHANGED <<rvars, jvars, putCache>>
    /\ ~crashed /\ call[t].op = "Flush"
    /\ cache' = FlushMap(cache)
    /\ last' = Return("Flush", NoKey, Nil, Nil, FALSE)
    /\ swept' = DOMAIN cache \ DOMAIN cache'
    /\ lastPut' = [k \in Keys |-> IF k \in DOMAIN cache' THEN lastPut[k] ELSE NoPut]
    /\ mutex' = Unlock(t)
    /\ call' = [call EXCEPT ![t] = Idle]
    /\ UNCHANGED <<window, now, race, cleaners, crashed>>

\* ----------------------------------------------------------- FlushStale
FlushStaleCall(t) ==
    /\ UNCHANGED <<rvars, jvars, putCache>>
    /\ ~crashed /\ call[t] = Idle /\ t \in refs /\ CanLock
    /\ mutex' = Lock(t)
    /\ call' = [call EXCEPT ![t] = Call("FlushStale", NoKey, Nil)]
    /\ last' = NoReturn /\ swept' = {} /\ lastPut' = lastPut
    /\ UNCHANGED <<window, cache, now, race, cleaners, crashed>>

FlushStaleReturn(t) ==
    /\ UNCHANGED <<rvars, jvars, putCache>>
    /\ ~crashed /\ call[t].op = "FlushStale"
    /\ cache' = FlushStaleMap(cache, now, window)
    /\ last' = Return("FlushStale", NoKey, Nil, Nil, FALSE)
    /\ swept' = DOMAIN cache \ DOMAIN cache'
    /\ lastPut' = [k \in Keys |-> IF k \in DOMAIN cache' THEN lastPut[k] ELSE NoPut]
    /\ mutex' = Unlock(t)
    /\ call' = [call EXCEPT ![t] = Idle]
    /\ UNCHANGED <<window, now, race, cleaners, crashed>>


\* ----------------------------------------------------------- RunCleaner
\* initCleaner: &cleaner{Interval: c.window, stop: make(chan bool)}
initCleaner(w) == [pc |-> "go", Interval |-> w, next |-> 0, C |-> 0]

\* The cleaner ids not yet given to a goroutine
FreeCleaners == {j \in CleanerIds : cleaners[j].pc = "none"}

\* RunCleaner, first half: j := c.initCleaner(); j.run(c), which is
\* `go j.cleanup(c)`.  The new goroutine runs from here on.
RunCleanerGo(t) ==
    /\ UNCHANGED <<rvars, jvars, putCache>>
    /\ ~crashed /\ call[t] = Idle /\ t \in refs /\ FreeCleaners # {}
    /\ LET j == CHOOSE x \in FreeCleaners : \A y \in FreeCleaners : x = "j1" \/ y # "j1"
       IN  /\ cleaners' = [cleaners EXCEPT ![j] = initCleaner(window)]
           /\ call' = [call EXCEPT ![t] = Call("RunCleaner", j, Nil)]
    /\ last' = NoReturn /\ swept' = {} /\ lastPut' = lastPut
    /\ UNCHANGED <<window, cache, mutex, now, race, crashed>>

\* RunCleaner, second half: runtime.SetFinalizer(c, j.stopCleaner).
\* j.stopCleaner is a func() and the runtime requires a finalizer that takes
\* the object as its one argument; given anything else "SetFinalizer may abort
\* the program" (package runtime), and the gc runtime does, with a throw that
\* nothing recovers.  Both outcomes are kept.  An object that already has a
\* finalizer cannot be given another: that call always throws ("finalizer
\* already set").
RunCleanerSetFinalizer(t) ==
    /\ UNCHANGED <<rvars, putCache>>
    /\ ~crashed /\ call[t].op = "RunCleaner"
    /\ \E abort \in BOOLEAN :
        /\ finalizer # Nil => abort
        /\ crashed' = abort
        /\ IF abort
           THEN last' = NoReturn /\ UNCHANGED <<call, finalizer>>
           ELSE /\ call' = [call EXCEPT ![t] = Idle]
                /\ finalizer' = call[t].key
                /\ last' = Return("RunCleaner", NoKey, Nil, Nil, FALSE)
    /\ swept' = {} /\ lastPut' = lastPut
    /\ UNCHANGED <<window, cache, mutex, now, race, cleaners, refs, stop>>

\* ------------------------------------------------- the cache's lifetime
\* A goroutine that has started a cleaner and not seen it return: cleanup(c)
\* has the cache as its argument for as long as it runs
Live(j) == cleaners[j].pc \in {"go", "select", "FlushStale", "locked"}

\* The cache is reachable while a caller or a running goroutine refers to it
Reachable == refs # {} \/ \E j \in CleanerIds : Live(j)

\* A caller lets go of the *MemCache that New returned to it
DropRef(t) ==
    /\ UNCHANGED <<rvars, putCache>>
    /\ ~crashed /\ call[t] = Idle /\ t \in refs
    /\ refs' = refs \ {t}
    /\ last' = NoReturn /\ swept' = {} /\ lastPut' = lastPut
    /\ UNCHANGED <<window, cache, mutex, now, call, race, cleaners, crashed, finalizer, stop>>

\* The goroutine that runs finalizers
Fin == "fin"

\* The garbage collector finds the cache unreachable and runs its finalizer,
\* j.stopCleaner, on the finalizer goroutine; the finalizer is cleared.
Finalize ==
    /\ UNCHANGED <<rvars, putCache>>
    /\ ~crashed /\ ~Reachable /\ finalizer # Nil
    /\ stop' = [stop EXCEPT ![finalizer] = Append(@, Fin)]
    /\ finalizer' = Nil
    /\ last' = NoReturn /\ swept' = {} /\ lastPut' = lastPut
    /\ UNCHANGED <<window, cache, mutex, now, call, race, cleaners, crashed, refs>>

\* ---------------------------------------------------------- stopCleaner
\* j.stopCleaner() called by code of the package that holds j (RunCleaner
\* itself hands j to nobody but the finalizer): j.stop <- true on a channel
\* without buffer, so the caller waits for a receiver.
stopCleaner(t, j) ==
    /\ UNCHANGED <<rvars, putCache>>
    /\ ~crashed /\ call[t] = Idle /\ cleaners[j].pc # "none"
    /\ call' = [call EXCEPT ![t] = Call("stopCleaner", j, Nil)]
    /\ stop' = [stop EXCEPT ![j] = Append(@, t)]
    /\ last' = NoReturn /\ swept' = {} /\ lastPut' = lastPut
    /\ UNCHANGED <<window, cache, mutex, now, race, cleaners, crashed, refs, finalizer>>

\* A receive that lets every waiting sender go, as a closed channel would
StopRecvAll(q) == <<>>

\* <-j.stop: one receive takes the value of the sender that has waited
\* longest; the others keep waiting
StopRecv(q) == Tail(q)

\* The cleaner that ignores the stop signal and goes round the loop again
AfterStopKeepsRunning(c) == c

\* case <-j.stop: ticker.Stop(); return
AfterStop(c) == [c EXCEPT !.pc = "stopped"]

\* -------------------------------------------------------------- cleanup
\* A cleaner whose ticker exists and has not been stopped
Ticking(j) == cleaners[j].pc \in {"select", "FlushStale", "locked"}

\* ticker := time.NewTicker(j.Interval): the first tick is one Interval away
cleanupNewTicker(j) ==
    /\ UNCHANGED <<rvars, jvars, putCache>>
    /\ ~crashed /\ cleaners[j].pc = "go"
    /\ cleaners' = [cleaners EXCEPT ![j].pc = "select",
                                    ![j].next = now + cleaners[j].Interval]
    /\ last' = NoReturn /\ swept' = {} /\ lastPut' = lastPut
    /\ UNCHANGED <<window, cache, mutex, now, call, race, crashed>>

\* case <-ticker.C: the select takes the tick waiting in the channel
cleanupTick(j) ==
    /\ UNCHANGED <<rvars, jvars, putCache>>
    /\ ~crashed /\ cleaners[j].pc = "select" /\ cleaners[j].C = 1
    /\ cleaners' = [cleaners EXCEPT ![j].pc = "FlushStale", ![j].C = 0]
    /\ last' = NoReturn /\ swept' = {} /\ lastPut' = lastPut
    /\ UNCHANGED <<window, cache, mutex, now, call, race, crashed>>

\* c.FlushStale() called by the cleaner: c.mutex.Lock()
cleanupFlushStaleCall(j) ==
    /\ UNCHANGED <<rvars, jvars, putCache>>
    /\ ~crashed /\ cleaners[j].pc = "FlushStale" /\ CanLock
    /\ mutex' = Lock(j)
    /\ cleaners' = [cleaners EXCEPT ![j].pc = "locked"]
    /\ last' = NoReturn /\ swept' = {} /\ lastPut' = lastPut
    /\ UNCHANGED <<window, cache, now, call, race, crashed>>

\* c.FlushStale() called by the cleaner: the sweep, the unlock; the error it
\* returns is dropped and the loop goes back to the select
cleanupFlushStaleReturn(j) ==
    /\ UNCHANGED <<rvars, jvars, putCache>>
    /\ ~crashed /\ cleaners[j].pc = "locked"
    /\ cache' = FlushStaleMap(cache, now, window)
    /\ mutex' = Unlock(j)
    /\ cleaners' = [cleaners EXCEPT ![j].pc = "select"]
    /\ last' = NoReturn
    /\ swept' = DOMAIN cache \ DOMAIN cache'
    /\ lastPut' = [k \in Keys |-> IF k \in DOMAIN cache' THEN lastPut[k] ELSE NoPut]
    /\ UNCHANGED <<window, now, call, race, crashed>>

\* case <-j.stop: the select takes the value of a waiting sender, whose send
\* returns; the ticker is stopped and the goroutine ends
cleanupStop(j) ==
    /\ UNCHANGED <<rvars, putCache>>
    /\ ~crashed /\ cleaners[j].pc = "select" /\ stop[j] # <<>>
    /\ cleaners' = [cleaners EXCEPT ![j] = AfterStop(@)]
    /\ stop' = [stop EXCEPT ![j] = StopRecv(@)]
    /\ LET sent == {t \in Callers : \E i \in 1 .. Len(stop[j]) : stop[j][i] = t}
                     \ {t \in Callers : \E i \in 1 .. Len(stop'[j]) : stop'[j][i] = t}
       IN  /\ call' = [t \in Callers |-> IF t \in sent THEN Idle ELSE call[t]]
           /\ last' = IF sent = {} THEN NoReturn
                      ELSE Return("stopCleaner", j, Nil, Nil, FALSE)
    /\ swept' = {} /\ lastPut' = lastPut
    /\ UNCHANGED <<window, cache, mutex, now, race, crashed, refs, finalizer>>

\* ----------------------------------------------------------------- time
\* time.Ticker: at every multiple of Interval after its creation the runtime
\* puts a tick in the channel, whose buffer holds one; a tick that finds the
\* buffer full is dropped.
TickerFires(c, clock) ==
    IF c.pc \in {"select", "FlushStale", "locked"} /\ c.next = clock
    THEN [c EXCEPT !.C = 1, !.next = clock + c.Interval]
    ELSE c

\* The wall clock advances by one unit, whatever the process is doing (or
\* after it has died); the tickers of a live process fire as it does.
Tick ==
    /\ UNCHANGED <<rvars, jvars, putCache>>
    /\ now < MaxTime
    /\ now' = now + 1
    /\ cleaners' = IF crashed THEN cleaners
                   ELSE [j \in CleanerIds |-> TickerFires(cleaners[j], now + 1)]
    /\ last' = NoReturn /\ swept' = {} /\ lastPut' = lastPut
    /\ UNCHANGED <<window, cache, mutex, call, race, crashed>>

\* ----------------------------------------------------------------- Next
\* The store under two concurrent callers and the passing of time.
Next ==
    \/ \E t \in Callers, k \in Keys : IsWarmCall(t, k)
    \/ \E t \in Callers : IsWarmReturn(t)
    \/ \E t \in Callers, k \in Keys, v \in Values : PutCall(t, k, v)
    \/ \E t \in Callers : PutCopy(t)
    \/ \E t \in Callers : PutReturn(t)
    \/ \E t \in Callers, k \in Keys : GetCall(t, k)
    \/ \E t \in Callers : GetReturn(t)
    \/ \E t \in Callers, k \in Keys : DeleteCall(t, k)
    \/ \E t \in Callers : DeleteReturn(t)
    \/ \E t \in Callers : FlushCall(t)
    \/ \E t \in Callers : FlushReturn(t)
    \/ \E t \in Callers : FlushStaleCall(t)
    \/ \E t \in Callers : FlushStaleReturn(t)
    \/ Tick

Spec == Init /\ [][Next]_vars

\* The store with its cleaner goroutines: one caller puts, gets, deletes,
\* sweeps and calls RunCleaner while the cleaners it started run beside it.
Owner == {"t1"}

CleanerNext ==
    \/ \E t \in Owner, k \in Keys, v \in Values : PutCall(t, k, v)
    \/ \E t \in Owner : PutCopy(t)
    \/ \E t \in Owner : PutReturn(t)
    \/ \E t \in Owner, k \in Keys : GetCall(t, k)
    \/ \E t \in Owner : GetReturn(t)
    \/ \E t \in Owner, k \in Keys : DeleteCall(t, k)
    \/ \E t \in Owner : DeleteReturn(t)
    \/ \E t \in Owner : FlushStaleCall(t)
    \/ \E t \in Owner : FlushStaleReturn(t)
    \/ \E t \in Owner : RunCleanerGo(t)
    \/ \E t \in Owner : RunCleanerSetFinalizer(t)
    \/ \E j \in CleanerIds : cleanupNewTicker(j)
    \/ \E j \in CleanerIds : cleanupTick(j)
    \/ \E j \in CleanerIds : cleanupFlushStaleCall(j)
    \/ \E j \in CleanerIds : cleanupFlushStaleReturn(j)
    \/ Tick

CleanerSpec == Init /\ [][CleanerNext]_vars

\* Scheduling: the clock runs; a goroutine that can take a step takes it; a
\* goroutine waiting in Lock gets the mutex if it becomes free again and again
\* (sync.RWMutex hands a waiting writer the lock ahead of later readers).
CleanerFairness ==
    /\ WF_vars(Tick)
    /\ \A t \in Owner :
        /\ WF_vars(PutCopy(t)) /\ WF_vars(PutReturn(t)) /\ WF_vars(GetReturn(t))
        /\ WF_vars(DeleteReturn(t)) /\ WF_vars(FlushStaleReturn(t))
        /\ WF_vars(RunCleanerSetFinalizer(t))
    /\ \A j \in CleanerIds :
        /\ WF_vars(cleanupNewTicker(j))
        /\ WF_vars(cleanupTick(j))
        /\ SF_vars(cleanupFlushStaleCall(j))
        /\ WF_vars(cleanupFlushStaleReturn(j))

FairCleanerSpec == CleanerSpec /\ CleanerFairness

\* The life of the cleaners: callers start them, ask them to stop and let go
\* of the cache; the garbage collector runs the finalizer.
JanitorNext ==
    \/ \E t \in Callers : RunCleanerGo(t)
    \/ \E t \in Callers : RunCleanerSetFinalizer(t)
    \/ \E t \in Callers : DropRef(t)
    \/ Finalize
    \/ \E t \in Callers, j \in CleanerIds : stopCleaner(t, j)
    \/ \E j \in CleanerIds : cleanupNewTicker(j)
    \/ \E j \in CleanerIds : cleanupTick(j)
    \/ \E j \in CleanerIds : cleanupFlushStaleCall(j)
    \/ \E j \in CleanerIds : cleanupFlushStaleReturn(j)
    \/ \E j \in CleanerIds : cleanupStop(j)
    \/ Tick

JanitorSpec == Init /\ [][JanitorNext]_vars

\* Scheduling: the clock runs, a goroutine that can take a step takes it, the
\* collector runs a finalizer that is due, and a select with a sender waiting
\* on j.stop takes that case sooner or later (select picks among its ready
\* cases at random).  Callers are free never to call anything.
JanitorFairness ==
    /\ WF_vars(Tick)
    /\ WF_vars(Finalize)
    /\ \A t \in Callers : WF_vars(RunCleanerSetFinalizer(t))
    /\ \A j \in CleanerIds :
        /\ WF_vars(cleanupNewTicker(j))
        /\ WF_vars(cleanupTick(j))
        /\ WF_vars(cleanupFlushStaleCall(j))
        /\ WF_vars(cleanupFlushStaleReturn(j))
        /\ SF_vars(cleanupStop(j))

FairJanitorSpec == JanitorSpec /\ JanitorFairness


\* ================================================================= redis
\* The requests RedisCache sends, as the server and the go-redis client
\* answer them.  `fail` is a request lost to the connection.

\* c.c.Exists(ctx, key).Result(): the number of the keys that exist
Exists(db, key, fail) ==
    IF fail THEN [n |-> 0, err |-> ErrIO]
    ELSE [n |-> IF key \in DOMAIN db THEN 1 ELSE 0, err |-> Nil]

\* c.c.Set(ctx, key, value, expiration): SET key value [EX expiration]; an
\* expiration of 0 sets the key without expiry
Set(db, key, value, expiration) ==
    [k \in DOMAIN db \cup {key} |->
        IF k = key
        THEN [value |-> value, ttl |-> IF expiration = 0 THEN NoExpiry ELSE expiration]
        ELSE db[k]]

\* c.c.Del(ctx, key)
Del(db, key) == [k \in DOMAIN db \ {key} |-> db[k]]

\* RedisCache.IsWarm: return err != redis.Nil
RedisIsWarmResult(reply) == reply.err # RedisNil

\* RedisCache.Get: the error of the GET (redis.Nil for a missing key), else the value
RedisGetResult(db, key, fail) ==
    IF fail THEN [value |-> Nil, err |-> ErrIO]
    ELSE IF key \notin DOMAIN db THEN [value |-> Nil, err |-> RedisNil]
    ELSE [value |-> db[key].value, err |-> Nil]

RReturn(op, key, value, err, warm, reply) ==
    [op |-> op, key |-> key, value |-> value, err |-> err, warm |-> warm, reply |-> reply,
     deleted |-> {}, left |-> {}]

NoReply == [n |-> 0, err |-> Nil]

RedisIsWarm(key) ==
    /\ \E fail \in BOOLEAN :
        LET reply == Exists(rdb, key, fail)
        IN  rlast' = RReturn("IsWarm", key, Nil, Nil, RedisIsWarmResult(reply), reply)
    /\ ~rcrashed
    /\ UNCHANGED <<rwindow, rdb, rjvars>>
    /\ UNCHANGED mvars

RedisPut(key, value) ==
    /\ \E fail \in BOOLEAN :
        IF fail
        THEN rdb' = rdb /\ rlast' = RReturn("Put", key, Nil, ErrIO, FALSE, NoReply)
        ELSE /\ rdb' = Set(rdb, key, value, rwindow)
             /\ rlast' = RReturn("Put", key, Nil, Nil, FALSE, NoReply)
    /\ ~rcrashed
    /\ UNCHANGED <<rwindow, rjvars>>
    /\ UNCHANGED mvars

RedisGet(key) ==
    /\ \E fail \in BOOLEAN :
        LET r == RedisGetResult(rdb, key, fail)
        IN  rlast' = RReturn("Get", key, r.value, r.err, FALSE, NoReply)
    /\ ~rcrashed
    /\ UNCHANGED <<rwindow, rdb, rjvars>>
    /\ UNCHANGED mvars

RedisDelete(key) ==
    /\ \E fail \in BOOLEAN :
        IF fail
        THEN rdb' = rdb /\ rlast' = RReturn("Delete", key, Nil, ErrIO, FALSE, NoReply)
        ELSE /\ rdb' = Del(rdb, key)
             /\ rlast' = RReturn("Delete", key, Nil, Nil, FALSE, NoReply)
    /\ ~rcrashed
    /\ UNCHANGED <<rwindow, rjvars>>
    /\ UNCHANGED mvars

\* One unit of time passes at the server: every expiry counts down, and a key
\* whose expiry reaches zero is gone.
Expire ==
    /\ \E k \in DOMAIN rdb : rdb[k].ttl > 0
    /\ rdb' = [k \in {x \in DOMAIN rdb : rdb[x].ttl # 1} |->
                  IF rdb[k].ttl = NoExpiry THEN rdb[k]
                  ELSE [rdb[k] EXCEPT !.ttl = @ - 1]]
    /\ rlast' = RNoReturn
    /\ UNCHANGED <<rwindow, rjvars>>
    /\ UNCHANGED mvars

\* ------------------------------------------------ redis: Flush, FlushStale
\* The elements of a sequence
Range(q) == {q[i] : i \in 1 .. Len(q)}

\* The pages a SCAN request may return: some of the keys in the keyspace that
\* the iteration has not returned yet, in any order, and at least one if there
\* is one (SCAN promises every key present throughout, in no order, over as
\* many requests as the server likes)
Pages(db, seen) ==
    {q \in UNION {[1 .. n -> DOMAIN db \ seen] : n \in 0 .. Cardinality(DOMAIN db \ seen)} :
        /\ \A i, j \in 1 .. Len(q) : i # j => q[i] # q[j]
        /\ (DOMAIN db \ seen # {}) => q # <<>>}

\* c.c.TTL(ctx, key).Result(): the remaining time, -1 without expiry, -2 for
\* a key that does not exist
TTL(db, key) == IF key \in DOMAIN db THEN db[key].ttl ELSE Absent

\* iter := c.c.Scan(ctx, 0, "", 0).Iterator(): nothing fetched yet
IterStart(op) ==
    [op |-> op, pc |-> "loop", todo |-> <<>>, more |-> TRUE, seen |-> {},
     deleted |-> {}, left |-> {}, d |-> 0, failed |-> FALSE]

Outcome(it, db, done, err) == [it |-> it, db |-> db, done |-> done, err |-> err]

\* iter.Next(ctx) with the page used up: false when the cursor is 0 (then
\* iter.Err() is nil and the method returns nil); else the next SCAN, whose
\* error ends the loop and is what iter.Err() returns
IterNext(it, db, fail, page) ==
    IF ~it.more THEN Outcome(it, db, TRUE, Nil)
    ELSE IF fail THEN Outcome([it EXCEPT !.failed = TRUE], db, TRUE, ErrIO)
    ELSE Outcome([it EXCEPT !.todo = page,
                            !.seen = @ \cup Range(page),
                            !.more = (DOMAIN db \ (it.seen \cup Range(page))) # {}],
                 db, FALSE, Nil)

\* Flush that goes on to the next key when a DEL fails
FlushDelIgnoresError(it, db, fail) ==
    IF fail
    THEN Outcome([it EXCEPT !.todo = Tail(@), !.failed = TRUE], db, FALSE, Nil)
    ELSE Outcome([it EXCEPT !.todo = Tail(@), !.deleted = @ \cup {Head(it.todo)}],
                 Del(db, Head(it.todo)), FALSE, Nil)

\* Flush, the loop body: key := iter.Val(); DEL key; return err on error
FlushDel(it, db, fail) ==
    IF fail
    THEN Outcome([it EXCEPT !.failed = TRUE, !.left = @ \cup Range(it.todo)], db, TRUE, ErrIO)
    ELSE Outcome([it EXCEPT !.todo = Tail(@), !.deleted = @ \cup {Head(it.todo)}],
                 Del(db, Head(it.todo)), FALSE, Nil)

\* Flush: one request of the loop
FlushStep(it, db, fail, page) ==
    IF it.todo = <<>> THEN IterNext(it, db, fail, page) ELSE FlushDel(it, db, fail)

\* FlushStale deleting on every negative reply, "no expiry" and "no key" alike
IsNegativeTTL(d) == d < 0

\* FlushStale: if d == -1
IsNoTTL(d) == d = NoExpiry

\* FlushStale, the loop body up to the test: key := iter.Val(); d, err := TTL key
FlushStaleTTL(it, db, fail) ==
    LET key == Head(it.todo)
        d == TTL(db, key)
    IN  IF fail THEN Outcome([it EXCEPT !.failed = TRUE], db, TRUE, ErrIO)
        ELSE IF IsNoTTL(d) THEN Outcome([it EXCEPT !.pc = "del", !.d = d], db, FALSE, Nil)
        ELSE Outcome([it EXCEPT !.todo = Tail(@), !.d = d, !.left = @ \cup {key}],
                     db, FALSE, Nil)

\* FlushStale, the body of the test: DEL key; return err on error
FlushStaleDel(it, db, fail) ==
    IF fail THEN Outcome([it EXCEPT !.failed = TRUE], db, TRUE, ErrIO)
    ELSE Outcome([it EXCEPT !.pc = "loop", !.todo = Tail(@),
                            !.deleted = @ \cup {Head(it.todo)}],
                 Del(db, Head(it.todo)), FALSE, Nil)

\* FlushStale: one request of the loop
FlushStaleStep(it, db, fail, page) ==
    IF it.todo = <<>> THEN IterNext(it, db, fail, page)
    ELSE IF it.pc = "del" THEN FlushStaleDel(it, db, fail)
    ELSE FlushStaleTTL(it, db, fail)

RFlushReturn(op, err, it) ==
    [op |-> op, key |-> NoKey, value |-> Nil, err |-> err, warm |-> FALSE,
     reply |-> NoReply, deleted |-> it.deleted, left |-> it.left]

RedisFlushCall(t) ==
    /\ ~rcrashed /\ riter[t] = NoIter
    /\ riter' = [riter EXCEPT ![t] = IterStart("Flush")]
    /\ rlast' = RNoReturn
    /\ UNCHANGED <<rwindow, rdb, rcleaners, rstop, rcrashed>>
    /\ UNCHANGED mvars

RedisFlushStep(t) ==
    /\ ~rcrashed /\ riter[t].op = "Flush"
    /\ \E fail \in BOOLEAN, page \in Pages(rdb, riter[t].seen) :
        LET r == FlushStep(riter[t], rdb, fail, page)
        IN  /\ rdb' = r.db
            /\ IF r.done
               THEN /\ riter' = [riter EXCEPT ![t] = NoIter]
                    /\ rlast' = RFlushReturn("Flush", r.err, r.it)
               ELSE /\ riter' = [riter EXCEPT ![t] = r.it]
                    /\ rlast' = RNoReturn
    /\ UNCHANGED <<rwindow, rcleaners, rstop, rcrashed>>
    /\ UNCHANGED mvars

RedisFlushStaleCall(t) ==
    /\ ~rcrashed /\ riter[t] = NoIter
    /\ riter' = [riter EXCEPT ![t] = IterStart("FlushStale")]
    /\ rlast' = RNoReturn
    /\ UNCHANGED <<rwindow, rdb, rcleaners, rstop, rcrashed>>
    /\ UNCHANGED mvars

RedisFlushStaleStep(t) ==
    /\ ~rcrashed /\ riter[t].op = "FlushStale"
    /\ \E fail \in BOOLEAN, page \in Pages(rdb, riter[t].seen) :
        LET r == FlushStaleStep(riter[t], rdb, fail, page)
        IN  /\ rdb' = r.db
            /\ IF r.done
               THEN /\ riter' = [riter EXCEPT ![t] = NoIter]
                    /\ rlast' = RFlushReturn("FlushStale", r.err, r.it)
               ELSE /\ riter' = [riter EXCEPT ![t] = r.it]
                    /\ rlast' = RNoReturn
    /\ UNCHANGED <<rwindow, rcleaners, rstop, rcrashed>>
    /\ UNCHANGED mvars

\* ------------------------------------------------- redis: the cleaner
\* RedisCache.initCleaner: &cleaner{Interval: c.window, stop: make(chan bool)}
RedisInitCleaner(w) == [pc |-> "go", Interval |-> w, C |-> 0, failed |-> FALSE]

\* RunCleaner, first half: j := c.initCleaner(); j.run(c)
RedisRunCleanerGo(t, j) ==
    /\ ~rcrashed /\ riter[t] = NoIter /\ rcleaners[j].pc = "none"
    /\ rcleaners' = [rcleaners EXCEPT ![j] = RedisInitCleaner(rwindow)]
    /\ riter' = [riter EXCEPT ![t] = [NoIter EXCEPT !.op = "RunCleaner"]]
    /\ rlast' = RNoReturn
    /\ UNCHANGED <<rwindow, rdb, rstop, rcrashed>>
    /\ UNCHANGED mvars

\* RunCleaner, second half: runtime.SetFinalizer(c, j.stopCleaner), which may
\* abort the program as the MemCache's does
RedisRunCleanerSetFinalizer(t) ==
    /\ ~rcrashed /\ riter[t].op = "RunCleaner"
    /\ \E abort \in BOOLEAN :
        /\ rcrashed' = abort
        /\ riter' = IF abort THEN riter ELSE [riter EXCEPT ![t] = NoIter]
    /\ rlast' = RNoReturn
    /\ UNCHANGED <<rwindow, rdb, rcleaners, rstop>>
    /\ UNCHANGED mvars

\* ticker := time.NewTicker(j.Interval), which panics when the interval is not
\* positive: the panic in the cleaner goroutine ends the process
RedisCleanupNewTicker(j) ==
    /\ ~rcrashed /\ rcleaners[j].pc = "go"
    /\ IF rcleaners[j].Interval <= 0
       THEN rcrashed' = TRUE /\ UNCHANGED rcleaners
       ELSE rcrashed' = FALSE /\ rcleaners' = [rcleaners EXCEPT ![j].pc = "select"]
    /\ rlast' = RNoReturn
    /\ UNCHANGED <<rwindow, rdb, riter, rstop>>
    /\ UNCHANGED mvars

\* The ticker's period has passed: a tick goes into the channel if its buffer
\* of one is empty (and is dropped if not)
RedisTickerFires(j) ==
    /\ ~rcrashed /\ rcleaners[j].pc \in {"select", "FlushStale"} /\ rcleaners[j].C = 0
    /\ rcleaners' = [rcleaners EXCEPT ![j].C = 1]
    /\ rlast' = RNoReturn
    /\ UNCHANGED <<rwindow, rdb, riter, rstop, rcrashed>>
    /\ UNCHANGED mvars

\* case <-ticker.C: c.FlushStale() begins
RedisCleanupTick(j) ==
    /\ ~rcrashed /\ rcleaners[j].pc = "select" /\ rcleaners[j].C = 1
    /\ rcleaners' = [rcleaners EXCEPT ![j].pc = "FlushStale", ![j].C = 0]
    /\ riter' = [riter EXCEPT ![j] = IterStart("FlushStale")]
    /\ rlast' = RNoReturn
    /\ UNCHANGED <<rwindow, rdb, rstop, rcrashed>>
    /\ UNCHANGED mvars

\* The cleaner that gives up when a sweep fails
AfterFlushStaleStopsOnError(err) == IF err = Nil THEN "select" ELSE "stopped"

\* c.FlushStale() as a statement: its error is dropped, the loop goes on
AfterFlushStale(err) == "select"

\* c.FlushStale() called by the cleaner, one request at a time
RedisCleanupFlushStaleStep(j) ==
    /\ ~rcrashed /\ rcleaners[j].pc = "FlushStale"
    /\ \E fail \in BOOLEAN, page \in Pages(rdb, riter[j].seen) :
        LET r == FlushStaleStep(riter[j], rdb, fail, page)
        IN  /\ rdb' = r.db
            /\ IF r.done
               THEN /\ riter' = [riter EXCEPT ![j] = NoIter]
                    /\ rcleaners' = [rcleaners EXCEPT
                          ![j].pc = AfterFlushStale(r.err),
                          ![j].failed = @ \/ r.err # Nil]
               ELSE /\ riter' = [riter EXCEPT ![j] = r.it]
                    /\ UNCHANGED rcleaners
    /\ rlast' = RNoReturn
    /\ UNCHANGED <<rwindow, rstop, rcrashed>>
    /\ UNCHANGED mvars

\* The most goroutines the model lets wait in a send on one stop channel
MaxStops == 1

\* j.stopCleaner(): a goroutine starts to wait in j.stop <- true
RedisStopCleaner(j) ==
    /\ ~rcrashed /\ rcleaners[j].pc # "none" /\ rstop[j] < MaxStops
    /\ rstop' = [rstop EXCEPT ![j] = @ + 1]
    /\ rlast' = RNoReturn
    /\ UNCHANGED <<rwindow, rdb, riter, rcleaners, rcrashed>>
    /\ UNCHANGED mvars

\* case <-j.stop: ticker.Stop(); return
RedisCleanupStop(j) ==
    /\ ~rcrashed /\ rcleaners[j].pc = "select" /\ rstop[j] > 0
    /\ rcleaners' = [rcleaners EXCEPT ![j].pc = "stopped"]
    /\ rstop' = [rstop EXCEPT ![j] = @ - 1]
    /\ rlast' = RNoReturn
    /\ UNCHANGED <<rwindow, rdb, riter, rcrashed>>
    /\ UNCHANGED mvars

\* No MemCache in use
MemoryIdle ==
    /\ window = 1
    /\ cache = EmptyMap
    /\ mutex = [writer |-> Nil, readers |-> {}]
    /\ now = 0
    /\ call = [t \in Callers |-> Idle]
    /\ race = [t \in Callers |-> NoRace]
    /\ last = NoReturn
    /\ swept = {}
    /\ lastPut = [k \in Keys |-> NoPut]
    /\ cleaners = [j \in CleanerIds |-> NoCleaner]
    /\ crashed = FALSE
    /\ refs = Callers
    /\ finalizer = Nil
    /\ stop = [j \in CleanerIds |-> <<>>]
    /\ putCache = [t \in Callers |-> NoLocal]

\* redis.New(address, username, password, opts...): the window is whatever a
\* Window option set, and zero without one
RedisInit ==
    /\ MemoryIdle
    /\ rwindow \in 0 .. MaxWindow
    /\ rdb = [k \in {} |-> [value |-> Nil, ttl |-> NoExpiry]]
    /\ rlast = RNoReturn
    /\ riter = [p \in RedisCallers \cup RedisCleanerIds |-> NoIter]
    /\ rcleaners = [j \in RedisCleanerIds |-> NoRedisCleaner]
    /\ rstop = [j \in RedisCleanerIds |-> 0]
    /\ rcrashed = FALSE

RedisNext ==
    \/ \E k \in Keys : RedisIsWarm(k)
    \/ \E k \in Keys, v \in Values : RedisPut(k, v)
    \/ \E k \in Keys : RedisGet(k)
    \/ \E k \in Keys : RedisDelete(k)
    \/ Expire

RedisSpec == RedisInit /\ [][RedisNext]_vars

\* A goroutine inside Flush or FlushStale, request by request, while other
\* goroutines put and delete and keys expire at the server.
RedisFlushNext ==
    \/ \E k \in Keys, v \in Values : RedisPut(k, v)
    \/ \E k \in Keys : RedisDelete(k)
    \/ \E t \in RedisCallers : RedisFlushCall(t)
    \/ \E t \in RedisCallers : RedisFlushStep(t)
    \/ \E t \in RedisCallers : RedisFlushStaleCall(t)
    \/ \E t \in RedisCallers : RedisFlushStaleStep(t)
    \/ Expire

RedisFlushSpec == RedisInit /\ [][RedisFlushNext]_vars

\* The RedisCache's cleaner beside goroutines that put and delete.
RedisCleanerNext ==
    \/ \E k \in Keys, v \in Values : RedisPut(k, v)
    \/ \E k \in Keys : RedisDelete(k)
    \/ \E t \in RedisCallers, j \in RedisCleanerIds : RedisRunCleanerGo(t, j)
    \/ \E t \in RedisCallers : RedisRunCleanerSetFinalizer(t)
    \/ \E j \in RedisCleanerIds : RedisCleanupNewTicker(j)
    \/ \E j \in RedisCleanerIds : RedisTickerFires(j)
    \/ \E j \in RedisCleanerIds : RedisCleanupTick(j)
    \/ \E j \in RedisCleanerIds : RedisCleanupFlushStaleStep(j)
    \/ \E j \in RedisCleanerIds : RedisStopCleaner(j)
    \/ \E j \in RedisCleanerIds : RedisCleanupStop(j)
    \/ Expire

RedisCleanerSpec == RedisInit /\ [][RedisCleanerNext]_vars

\* ------------------------------------------------------------- the claims
\* Steps of the methods, recognised by what they do to the caller's position
GetReturns(t) == call[t].op = "Get" /\ call'[t] = Idle
IsWarmReturns(t) == call[t].op = "IsWarm" /\ call'[t] = Idle
PutReturns(t) == call[t].op = "Put" /\ call'[t] = Idle
DeleteReturns(t) == call[t].op = "Delete" /\ call'[t] = Idle
FlushStaleReturns(t) == call[t].op = "FlushStale" /\ call'[t] = Idle
CleanerSweeps(j) == cleaners[j].pc = "locked" /\ cleaners'[j].pc = "select"

\* k holds what a Put stored at least a window ago
Expired(k) == lastPut[k] # NoPut /\ now - lastPut[k].at >= window

\* k holds what a Put stored less than a window ago
Fresh(k) == lastPut[k] # NoPut /\ now - lastPut[k].at < window

\* C1: Get never returns an expired payload: a Get of a key whose entry was
\* put a window or more ago fails with the not-found error, swept or not.
C1_GetNeverReturnsExpired ==
    (last.op = "Get" /\ Expired(last.key)) => last.err = ErrNotFound

\* C2: FlushStale and IsWarm agree on staleness: a FlushStale removes an entry
\* if and only if IsWarm, asked at the same instant, answers false for its key
\* (so it removes exactly the entries with elapsed >= window).
C2_FlushStaleAgreesWithIsWarm ==
    [][\A t \in Callers : FlushStaleReturns(t) =>
          \A k \in DOMAIN cache :
              (k \notin DOMAIN cache') <=> ~IsWarmResult(cache, k, now, window)]_vars

\* C3: no entry outlives a successful Delete: when Delete(k) has returned nil
\* the map holds no entry for k, Get(k) fails with the not-found error and
\* IsWarm(k) is false.
C3_NoEntryAfterDelete ==
    (last.op = "Delete" /\ last.err = Nil) =>
        /\ last.key \notin DOMAIN cache
        /\ GetResult(cache, last.key).err = ErrNotFound
        /\ ~IsWarmResult(cache, last.key, now, window)

\* C4: Get(k) returns exactly the payload of the most recent Put(k): right
\* after Put(k, v) a Get(k) yields v, and every Get(k) made while the latest
\* Put(k) has not been deleted, flushed or swept yields that Put's payload,
\* whatever was put under k before and whatever happened to other keys.
C4_GetReturnsLastPut ==
    /\ last.op = "Put" =>
          GetResult(cache, last.key) = [value |-> lastPut[last.key].value, err |-> Nil]
    /\ (last.op = "Get" /\ lastPut[last.key] # NoPut) =>
          last.err = Nil /\ last.value = lastPut[last.key].value

\* A Get has returned the second payload put under its key while the other
\* key holds a different payload.
C4_Witness ==
    /\ last.op = "Get" /\ last.err = Nil /\ last.value = "y"
    /\ lastPut[last.key].value = "y" /\ lastPut[last.key].at > 0
    /\ \E k \in Keys \ {last.key} : lastPut[k].value = "x"

\* C5: IsWarm(k) is true exactly while less than a window has passed since the
\* latest Put(k), false from then on, and false for a key with no entry (each
\* Put restarts the count).  Stated of every IsWarm that did not overlap a
\* Delete writing the same key.
C5_IsWarmWithinWindow ==
    [][\A t \in Callers : (IsWarmReturns(t) /\ ~race[t].raced) =>
          (last'.warm <=> Fresh(call[t].key))]_vars

\* IsWarm has answered false for an entry exactly one window old.
C5_Witness ==
    /\ last.op = "IsWarm" /\ ~last.warm
    /\ lastPut[last.key] # NoPut /\ now - lastPut[last.key].at = window

\* C6: FlushStale, called by a caller or by a cleaner, removes only entries
\* older than the window, and leaves every fresh entry in the map with the
\* payload and the save time its Put stored.
C6_FlushStaleKeepsFresh ==
    [][((\E t \in Callers : FlushStaleReturns(t)) \/ (\E j \in CleanerIds : CleanerSweeps(j))) =>
          /\ DOMAIN cache' \subseteq DOMAIN cache
          /\ \A k \in DOMAIN cache :
              /\ k \notin DOMAIN cache' => Since(cache[k].saved, now) > window
              /\ Fresh(k) => /\ k \in DOMAIN cache'
                             /\ cache'[k] = MemCacheValue(lastPut[k].at, lastPut[k].value)]_vars

\* A cleaner's sweep has just removed one key and left the other, fresh, alone.
C6_Witness ==
    /\ last = NoReturn /\ swept # {}
    /\ \E k \in DOMAIN cache : Fresh(k)
    /\ \E j \in CleanerIds : cleaners[j].pc = "select"

\* C7: Delete(k) fails with the not-found error and leaves the map as it was
\* whenever k has no entry: never put, or deleted, flushed or swept with no
\* Put(k) since; so a Delete(k) right after a successful Delete(k) fails.
C7_DeleteOfAbsentFails ==
    [][\A t \in Callers : (DeleteReturns(t) /\ lastPut[call[t].key] = NoPut) =>
          last'.err = ErrNotFound /\ cache' = cache]_vars

\* C8: Flush removes every entry, stale or not, and returns no error: after it
\* IsWarm is false and Get fails for every key, and a key only comes back into
\* the map by a Put of that key.
C8_FlushRemovesAll ==
    /\ [](last.op = "Flush" =>
            /\ last.err = Nil
            /\ \A k \in Keys : /\ ~IsWarmResult(cache, k, now, window)
                              /\ GetResult(cache, k).err = ErrNotFound)
    /\ [][\A k \in Keys : (k \notin DOMAIN cache /\ k \in DOMAIN cache') =>
            \E t \in Callers : PutReturns(t) /\ call[t].key = k]_vars

\* A Flush at time 0 has removed both keys, each put less than a window ago.
C8_Witness == last.op = "Flush" /\ swept = Keys /\ now = 0

\* C9: the remote IsWarm(k) is true if and only if the existence check
\* succeeded and reported that k exists; it is false for a key that is not in
\* the keyspace and false when the check failed.
C9_RedisIsWarmIffExists ==
    rlast.op = "IsWarm" => (rlast.warm <=> (rlast.reply.err = Nil /\ rlast.reply.n > 0))


\* A cleaner is running whose ticker fires at some instant after the entry of
\* k saved at t0 has gone stale and no later than t0 + 2 * window.
SweepDue(k, t0) ==
    /\ k \in DOMAIN cache /\ cache[k].saved = t0
    /\ t0 + 2 * window <= MaxTime
    /\ \E j \in CleanerIds : Ticking(j) /\ cleaners[j].next <= t0 + 2 * window

\* The entry of k saved at t0 is no longer in the map (or was replaced)
EntryGone(k, t0) == k \notin DOMAIN cache \/ cache[k].saved # t0

\* C10: with a cleaner running (interval = window), an entry put at t0 and not
\* put again or deleted is removed by the cleaner alone: the sweep of a tick
\* no later than t0 + 2 * window takes it out of the map, so that Get fails.
C10_CleanerRemovesStaleEntry ==
    \A k \in Keys, t0 \in Times : SweepDue(k, t0) ~> EntryGone(k, t0)

\* The same, for the runs in which the process stays alive.
CleanerRemovesUnlessCrashed ==
    \A k \in Keys, t0 \in Times : SweepDue(k, t0) ~> (EntryGone(k, t0) \/ crashed)

\* The goroutines waiting in a send on j.stop
Senders(q) == {q[i] : i \in 1 .. Len(q)}

\* C11: at most one cleaner goroutine is live per cache at any time, however
\* many times RunCleaner is called on it: a second RunCleaner does not leave
\* two cleaners sweeping the same map.
C11_AtMostOneLiveCleaner == Cardinality({j \in CleanerIds : Live(j)}) <= 1

\* C12: every operation goes through the lock: whenever a step writes the
\* map, no other goroutine is inside the map under a lock of its own (the
\* writer holds the mutex exclusively).
C12_WritesAreExclusive ==
    [][cache' # cache => (mutex.writer # Nil \/ Cardinality(mutex.readers) <= 1)]_vars

\* C13: once a cleaner is running and every caller has let go of the cache,
\* the cache becomes unreachable, the finalizer sends the stop signal and the
\* cleaner eventually stops.
C13_CleanerStopsWhenUnreferenced ==
    \A j \in CleanerIds : (Live(j) /\ refs = {}) ~> (cleaners[j].pc = "stopped")

\* C14: the stop signal is one-shot: the receive that stops a cleaner lets go
\* exactly the sender that asked first, and every other stopCleaner on that
\* cleaner, made before or after, stays blocked in its send for ever: nothing
\* receives on j.stop once the cleaner has stopped.
C14_SecondStopBlocksForever ==
    [][\A j \in CleanerIds :
        /\ (cleaners[j].pc # "stopped" /\ cleaners'[j].pc = "stopped") =>
              /\ stop[j] # <<>> /\ stop'[j] = Tail(stop[j])
              /\ \A t \in Callers :
                    call[t] = Call("stopCleaner", j, Nil) =>
                        (call'[t] = Idle <=> t = Head(stop[j]))
        /\ cleaners[j].pc = "stopped" =>
              /\ cleaners'[j].pc = "stopped"
              /\ Senders(stop[j]) \subseteq Senders(stop'[j])
              /\ \A t \in Callers :
                    call[t] = Call("stopCleaner", j, Nil) => call'[t] = call[t]]_vars

\* A cleaner has stopped on the first of two requests and the caller that
\* made the second is waiting in its send.
C14_Witness ==
    \E j \in CleanerIds, t \in Callers :
        /\ cleaners[j].pc = "stopped"
        /\ call[t] = Call("stopCleaner", j, Nil) /\ t \in Senders(stop[j])
        /\ \E u \in Callers \ {t} : call[u] = Idle /\ u \notin Senders(stop[j])

\* C15: a cleaner that receives the stop signal stops its ticker and is
\* Stopped; Stopped is terminal: the cleaner never runs again, its ticker never
\* fires and it never calls FlushStale, whatever ticks or calls follow.
C15_StoppedIsTerminal ==
    [][\A j \in CleanerIds :
        /\ (cleaners[j].pc = "select" /\ Len(stop'[j]) < Len(stop[j])) =>
              cleaners'[j].pc = "stopped" /\ ~Ticking(j)'
        /\ cleaners[j].pc = "stopped" =>
              cleaners'[j] = cleaners[j] /\ mutex'.writer # j]_vars

\* A stopped cleaner whose ticker would have fired since, had it not been
\* stopped, while a caller is asking it to stop again.
C15_Witness ==
    \E j \in CleanerIds :
        /\ cleaners[j].pc = "stopped" /\ cleaners[j].next < now
        /\ stop[j] # <<>>

\* C20: Put(k, v) changes the entry of k only: every other key is in the map
\* after the Put if and only if it was before, with the payload and the save
\* time it had, and the map does not change between the Put's copy and its
\* swap; so a Put brings back nothing that a Delete, Flush or FlushStale took
\* out and drops nothing that another Put put in.
C20_PutChangesOnlyItsKey ==
    [][\A t \in Callers :
        /\ PutReturns(t) =>
              /\ cache'[call[t].key] = MemCacheValue(lastPut'[call[t].key].at, call[t].value)
              /\ \A k \in Keys \ {call[t].key} :
                    /\ k \in DOMAIN cache <=> k \in DOMAIN cache'
                    /\ k \in DOMAIN cache => cache'[k] = cache[k]
        /\ (putCache[t].built /\ putCache'[t].built) => cache' = cache]_vars

\* A Put has just swapped its map in, some time after it built it, and the
\* other key still holds the older entry another Put stored.
C20_Witness ==
    /\ last.op = "Put" /\ lastPut[last.key].at < now
    /\ \E k \in Keys \ {last.key} :
          /\ k \in DOMAIN cache /\ lastPut[k] # NoPut
          /\ cache[k] = MemCacheValue(lastPut[k].at, lastPut[k].value)
          /\ cache[k].saved < cache[last.key].saved

\* The goroutines that can be inside a FlushStale of the RedisCache
Sweepers == RedisCallers \cup RedisCleanerIds

\* C16: when the FlushStale a cleaner calls on a tick returns an error, the
\* error reaches no caller and the cleaner stays Running: it is back in its
\* select with its ticker as it was, it calls FlushStale again on every tick
\* it takes from then on, and it is stopped by the stop signal only.
C16_CleanerSurvivesSweepError ==
    [][\A j \in RedisCleanerIds :
        /\ (riter[j] # NoIter /\ riter'[j] = NoIter) =>
              /\ rcleaners'[j].pc = "select" /\ rcleaners'[j].C = rcleaners[j].C
              /\ rcleaners'[j].failed = (rcleaners[j].failed \/ riter[j].todo # <<>> \/ riter[j].more)
              /\ rlast' = RNoReturn /\ rcrashed' = rcrashed
        /\ (rcleaners[j].failed /\ rcleaners[j].pc = "select"
                /\ rcleaners'[j].C < rcleaners[j].C) =>
              rcleaners'[j].pc = "FlushStale" /\ riter'[j] = IterStart("FlushStale")
        /\ (rcleaners[j].failed /\ rcleaners[j].pc # "stopped"
                /\ rcleaners'[j].pc = "stopped") =>
              rstop'[j] < rstop[j]]_vars

\* A cleaner whose sweep failed earlier is inside a later sweep and has
\* enumerated keys again.
C16_Witness ==
    \E j \in RedisCleanerIds :
        /\ rcleaners[j].failed /\ rcleaners[j].pc = "FlushStale"
        /\ riter[j].seen # {} /\ ~rcrashed

\* C17: the remote Flush deletes the keys its scan enumerates, one DEL each;
\* the first DEL or SCAN that fails ends it with that error, leaving the keys
\* already deleted deleted and the keys not yet processed in place; without
\* an error every enumerated key has been deleted and Flush returns nil.
C17_FlushStopsAtFirstError ==
    [][\A t \in RedisCallers : (riter[t].op = "Flush" /\ riter'[t] # riter[t]) =>
        LET it == riter[t]
        IN  /\ ~it.failed
            /\ riter'[t] = NoIter =>
                  /\ rlast'.op = "Flush" /\ rdb' = rdb
                  /\ rlast'.err = Nil =>
                        /\ it.todo = <<>> /\ ~it.more
                        /\ rlast'.deleted = it.seen
                  /\ rlast'.err # Nil =>
                        /\ rlast'.deleted = it.deleted
                        /\ rlast'.left = Range(it.todo)
                        /\ rlast'.deleted \cap rlast'.left = {}
            /\ riter'[t] # NoIter =>
                  \/ it.todo = <<>> /\ rdb' = rdb
                  \/ /\ it.todo # <<>> /\ rdb' = Del(rdb, Head(it.todo))
                     /\ riter'[t].deleted = it.deleted \cup {Head(it.todo)}
                     /\ riter'[t].todo = Tail(it.todo)]_vars

\* A Flush has returned an error after deleting a key: the key it deleted is
\* gone and the key it had not reached is still there.
C17_Witness ==
    /\ rlast.op = "Flush" /\ rlast.err # Nil
    /\ rlast.deleted # {} /\ rlast.deleted \cap DOMAIN rdb = {}
    /\ rlast.left # {} /\ rlast.left \subseteq DOMAIN rdb

\* C18: the remote FlushStale issues a DEL for an enumerated key exactly when
\* the TTL request for it answered "no expiry set"; a key with time left and
\* a key reported absent are passed over, and no step of FlushStale changes
\* the value or the ttl of any key; an error-free FlushStale has deleted the
\* enumerated keys that answered "no expiry set" and no other.
C18_FlushStaleDeletesOnlyNoExpiry ==
    [][\A p \in RedisCallers : (riter[p].op = "FlushStale" /\ riter'[p] # riter[p]) =>
        LET it == riter[p]
        IN  /\ riter'[p].pc = "del" =>
                  it.todo # <<>> /\ TTL(rdb, Head(it.todo)) = NoExpiry
            /\ (it.todo # <<>> /\ it.pc = "loop" /\ riter'[p] # NoIter) =>
                  /\ rdb' = rdb
                  /\ IF TTL(rdb, Head(it.todo)) = NoExpiry
                     THEN riter'[p].pc = "del" /\ riter'[p].todo = it.todo
                     ELSE /\ riter'[p].pc = "loop" /\ riter'[p].todo = Tail(it.todo)
                          /\ riter'[p].left = it.left \cup {Head(it.todo)}
            /\ \A k \in DOMAIN rdb :
                  IF k \in DOMAIN rdb'
                  THEN rdb'[k] = rdb[k]
                  ELSE it.pc = "del" /\ k = Head(it.todo)
            /\ (riter'[p] = NoIter /\ it.todo = <<>> /\ ~it.more) =>
                  /\ it.deleted \cup it.left = it.seen
                  /\ it.deleted \cap it.left = {}]_vars

\* A FlushStale has returned nil having deleted one key and passed over
\* another.
C18_Witness ==
    /\ rlast.op = "FlushStale" /\ rlast.err = Nil
    /\ rlast.deleted # {} /\ rlast.left # {}

\* C19: every key Put stores has an expiry at the server, whatever options
\* the cache was built with, so that no FlushStale, a caller's or a
\* cleaner's, removes from the keyspace a key this cache put and that has not
\* expired.
C19_FlushStaleSparesPutKeys ==
    [][\A p \in Sweepers : (riter[p].op = "FlushStale" /\ riter'[p] # riter[p]) =>
          DOMAIN rdb' = DOMAIN rdb]_vars

====
